---- MODULE Spec2Model ----
(***************************************************************************)
(* Model of the TZif (RFC 8536) decoder of src/src/lib.rs: the header      *)
(* overlay, the two-pass parse, the transition iterator, the designation   *)
(* lookup and the conversion of a transition time to UT.                   *)
(*                                                                         *)
(* Numbers wider than 31 bits are kept as big-endian lists of 16-bit limbs *)
(* (u32 and i32: 2 limbs, i64: 4 limbs, two's complement), so that the     *)
(* width of every Rust integer is kept and wrap-around is visible.         *)
(***************************************************************************)
EXTENDS Integers, Sequences, FiniteSets, TLC

VARIABLES
    stream,          \* the bytes the reader delivers
    pc,              \* position of the caller: "start", "parsed", "iterating", "ended",
                     \* "panicked"; "header", "decoded" in the header test; "convert"
    hbuf,            \* the 44 header bytes handed to Header::from_array by the header test
    hdr,             \* the fields the header test read back from the Header
    first,           \* outcome of the first parse_internal call (v1_result)
    second,          \* outcome of the second parse_internal call, when it ran
    ret,             \* what parse returned
    pos,             \* number of bytes of the stream the reader has delivered
    idx,             \* TransitionIterator::idx
    items,           \* the items the iterator has yielded so far
    reached,         \* (is_std, is_ut) pairs the iterator's match has evaluated
    at_time,         \* the Time on which to_ut is called
    local,           \* the LocalTimeType handed to to_ut
    fault,           \* the message of the panic that ended the traversal, "" when none did
    ut               \* outcome of the last to_ut call, with the build's overflow-checks setting

vars == <<stream, pc, hbuf, hdr, first, second, ret,
          pos, idx, items, reached, at_time, local, fault, ut>>

----------------------------------------------------------------------------
(* Fixed-width integers as limbs.                                          *)

Base == 256 * 256

\* two bytes, most significant first, as one 16-bit limb
Limb(hi, lo) == hi * 256 + lo

\* u32::swap_bytes on a 2-limb value
SwapBytes32(x) ==
    << Limb(x[2] % 256, x[2] \div 256), Limb(x[1] % 256, x[1] \div 256) >>

\* reading 4 bytes of memory as a native u32 (what the transmute of a
\* repr(packed) struct amounts to for a Bu32 field)
LoadNative32(b, le) ==
    IF le THEN << Limb(b[4], b[3]), Limb(b[2], b[1]) >>
          ELSE << Limb(b[1], b[2]), Limb(b[3], b[4]) >>

\* u32::from_be taken for the identity on every target
U32FromBeMutant(x, le) == x

\* u32::from_be
U32FromBe(x, le) == IF le THEN SwapBytes32(x) ELSE x

\* impl From<Bu32> for u32
BuToU32(big, le) == U32FromBe(big, le)

\* i32::from_be_bytes
I32FromBeBytes(b) == << Limb(b[1], b[2]), Limb(b[3], b[4]) >>

\* i64::from_be_bytes
I64FromBeBytes(b) ==
    << Limb(b[1], b[2]), Limb(b[3], b[4]), Limb(b[5], b[6]), Limb(b[7], b[8]) >>

\* an i32 widened without its sign (x as u32 as i64)
I64FromI32Mutant(x) == << 0, 0, x[1], x[2] >>

\* i64::from(i32): sign extension
I64FromI32(x) ==
    IF x[1] >= 32768 THEN << 65535, 65535, x[1], x[2] >>
                     ELSE << 0, 0, x[1], x[2] >>

IsNeg64(x) == x[1] >= 32768

\* wrapping 64-bit addition (i64::wrapping_add)
WrappingAdd64(a, b) ==
    LET s4 == a[4] + b[4]
        s3 == a[3] + b[3] + s4 \div Base
        s2 == a[2] + b[2] + s3 \div Base
        s1 == a[1] + b[1] + s2 \div Base
    IN  << s1 % Base, s2 % Base, s3 % Base, s4 % Base >>

\* i64::overflowing_add's flag: the operands agree in sign and the sum does not
AddOverflows64(a, b) ==
    /\ IsNeg64(a) = IsNeg64(b)
    /\ IsNeg64(WrappingAdd64(a, b)) # IsNeg64(a)

\* 60*60 as an i64
Hour64 == << 0, 0, 0, 3600 >>

Zero64 == << 0, 0, 0, 0 >>

----------------------------------------------------------------------------
(* Header                                                                  *)

\* b"TZif"
Magic == << 84, 90, 105, 102 >>

\* Header::from_array: the 44 bytes laid over the packed struct
HeaderFromArray(bytes, le) ==
    [ magic    |-> SubSeq(bytes, 1, 4),
      ver      |-> bytes[5],
      isutcnt  |-> LoadNative32(SubSeq(bytes, 21, 24), le),
      isstdcnt |-> LoadNative32(SubSeq(bytes, 25, 28), le),
      leapcnt  |-> LoadNative32(SubSeq(bytes, 29, 32), le),
      timecnt  |-> LoadNative32(SubSeq(bytes, 33, 36), le),
      typecnt  |-> LoadNative32(SubSeq(bytes, 37, 40), le),
      charcnt  |-> LoadNative32(SubSeq(bytes, 41, 44), le) ]

\* the fields of a Header as their readers see them: magic and ver as they
\* are, each count through u32::from(Bu32)
Fields(h, le) ==
    [ magic    |-> h.magic,
      ver      |-> h.ver,
      isutcnt  |-> BuToU32(h.isutcnt, le),
      isstdcnt |-> BuToU32(h.isstdcnt, le),
      leapcnt  |-> BuToU32(h.leapcnt, le),
      timecnt  |-> BuToU32(h.timecnt, le),
      typecnt  |-> BuToU32(h.typecnt, le),
      charcnt  |-> BuToU32(h.charcnt, le) ]

NoHeader ==
    [ magic |-> <<>>, ver |-> 0, isutcnt |-> <<0, 0>>, isstdcnt |-> <<0, 0>>,
      leapcnt |-> <<0, 0>>, timecnt |-> <<0, 0>>, typecnt |-> <<0, 0>>,
      charcnt |-> <<0, 0>> ]

----------------------------------------------------------------------------
(* parse_internal                                                          *)

\* TimeZoneInfo::default()
DefaultTz ==
    [ version                |-> 0,
      transition_times       |-> <<>>,
      transition_types       |-> <<>>,
      local_time_types       |-> <<>>,
      time_zone_designations |-> <<>>,
      leap_second_records    |-> <<>>,
      is_std                 |-> <<>>,
      is_ut                  |-> <<>> ]

\* The state of one parse_internal call: err is "" while it is still running
\* or has succeeded, "UnexpectedEof" after a short read_exact, "InvalidData"
\* after bogus(); pos is the reader's position; h the decoded header.
Running(p) == [ err |-> "", tz |-> DefaultTz, pos |-> p, h |-> NoHeader ]

\* bogus(): io::ErrorKind::InvalidData
bogus(st) == [ st EXCEPT !.err = "InvalidData" ]

\* a failed read_exact: the reader is drained
ShortRead(st, s) == [ st EXCEPT !.err = "UnexpectedEof", !.pos = Len(s) ]

\* whether a run of cnt records of size bytes each can be read from position p.
\* cnt is a u32 in limbs; the streams of this model are far shorter than 2^16.
CanRead(s, p, cnt, size) == cnt[1] = 0 /\ p + cnt[2] * size <= Len(s)

\* the version match of parse_internal; 0 stands for the bogus() arm
VersionOf(ver) ==
    CASE ver = 0  -> 1
      [] ver = 50 -> 2
      [] ver = 51 -> 3
      [] OTHER    -> 0

\* the header read without the checks of isstdcnt and isutcnt against typecnt
ReadHeaderMutant(s, p, le) ==
    LET st == Running(p) IN
    IF p + 44 > Len(s) THEN ShortRead(st, s)
    ELSE
      LET h   == HeaderFromArray(SubSeq(s, p + 1, p + 44), le)
          st1 == [ st EXCEPT !.pos = p + 44, !.h = h ]
      IN  IF h.magic # Magic THEN bogus(st1)
          ELSE IF VersionOf(h.ver) = 0 THEN bogus(st1)
          ELSE [ st1 EXCEPT !.tz.version = VersionOf(h.ver) ]

\* lines 120-143: the header read, the magic and count checks, the version
ReadHeader(s, p, le) ==
    LET st == Running(p) IN
    IF p + 44 > Len(s) THEN ShortRead(st, s)
    ELSE
      LET h   == HeaderFromArray(SubSeq(s, p + 1, p + 44), le)
          st1 == [ st EXCEPT !.pos = p + 44, !.h = h ]
      IN  IF h.magic # Magic THEN bogus(st1)
          ELSE IF h.isstdcnt # <<0, 0>> /\ h.isstdcnt # h.typecnt THEN bogus(st1)
          ELSE IF h.isutcnt # <<0, 0>> /\ h.isutcnt # h.typecnt THEN bogus(st1)
          ELSE IF VersionOf(h.ver) = 0 THEN bogus(st1)
          ELSE [ st1 EXCEPT !.tz.version = VersionOf(h.ver) ]

\* read_time: 4 bytes sign-extended in v1 mode, 8 bytes otherwise
TimeSize(v1) == IF v1 THEN 4 ELSE 8

read_time(v1, s, p) ==
    IF v1 THEN I64FromI32(I32FromBeBytes(SubSeq(s, p + 1, p + 4)))
          ELSE I64FromBeBytes(SubSeq(s, p + 1, p + 8))

\* lines 145-148
ReadTransitionTimes(st, s, v1, le) ==
    IF st.err # "" THEN st
    ELSE
      LET cnt == BuToU32(st.h.timecnt, le) IN
      IF ~CanRead(s, st.pos, cnt, TimeSize(v1)) THEN ShortRead(st, s)
      ELSE [ st EXCEPT
               !.tz.transition_times =
                   [ i \in 1..cnt[2] |->
                       read_time(v1, s, st.pos + (i - 1) * TimeSize(v1)) ],
               !.pos = st.pos + cnt[2] * TimeSize(v1) ]

\* lines 150-151
ReadTransitionTypes(st, s, le) ==
    IF st.err # "" THEN st
    ELSE
      LET cnt == BuToU32(st.h.timecnt, le) IN
      IF ~CanRead(s, st.pos, cnt, 1) THEN ShortRead(st, s)
      ELSE [ st EXCEPT
               !.tz.transition_types = SubSeq(s, st.pos + 1, st.pos + cnt[2]),
               !.pos = st.pos + cnt[2] ]

\* lines 153-170: one record at a time, the is_dst check between the reads;
\* the loop ends when cnt records have been pushed
RECURSIVE ReadLocalTimeTypesFrom(_, _, _)
ReadLocalTimeTypesFrom(st, s, cnt) ==
    IF cnt[1] = 0 /\ Len(st.tz.local_time_types) = cnt[2] THEN st
    ELSE IF st.pos + 6 > Len(s) THEN ShortRead(st, s)
    ELSE
      LET ut_off_secs == I32FromBeBytes(SubSeq(s, st.pos + 1, st.pos + 4))
          isdst       == s[st.pos + 5]
          desig       == s[st.pos + 6]
          st1         == [ st EXCEPT !.pos = st.pos + 6 ]
      IN  IF ~(isdst \in 0..1) THEN bogus(st1)
          ELSE ReadLocalTimeTypesFrom(
                 [ st1 EXCEPT !.tz.local_time_types =
                     Append(@, [ ut_off_secs |-> ut_off_secs,
                                 is_dst      |-> (isdst = 1),
                                 desig_idx   |-> desig ]) ],
                 s, cnt)

ReadLocalTimeTypes(st, s, le) ==
    IF st.err # "" THEN st
    ELSE ReadLocalTimeTypesFrom(st, s, BuToU32(st.h.typecnt, le))

\* lines 172-173
ReadDesignations(st, s, le) ==
    IF st.err # "" THEN st
    ELSE
      LET cnt == BuToU32(st.h.charcnt, le) IN
      IF ~CanRead(s, st.pos, cnt, 1) THEN ShortRead(st, s)
      ELSE [ st EXCEPT
               !.tz.time_zone_designations = SubSeq(s, st.pos + 1, st.pos + cnt[2]),
               !.pos = st.pos + cnt[2] ]

\* lines 175-181
ReadLeapSeconds(st, s, v1, le) ==
    IF st.err # "" THEN st
    ELSE
      LET cnt  == BuToU32(st.h.leapcnt, le)
          size == TimeSize(v1) + 4
      IN
      IF ~CanRead(s, st.pos, cnt, size) THEN ShortRead(st, s)
      ELSE [ st EXCEPT
               !.tz.leap_second_records =
                   [ i \in 1..cnt[2] |->
                       LET q == st.pos + (i - 1) * size IN
                       << read_time(v1, s, q),
                          I32FromBeBytes(SubSeq(s, q + TimeSize(v1) + 1,
                                                q + TimeSize(v1) + 4)) >> ],
               !.pos = st.pos + cnt[2] * size ]

\* lines 183-191
ReadIsStd(st, s, le) ==
    IF st.err # "" THEN st
    ELSE
      LET cnt == BuToU32(st.h.isstdcnt, le) IN
      IF ~CanRead(s, st.pos, cnt, 1) THEN ShortRead(st, s)
      ELSE
        LET buf == SubSeq(s, st.pos + 1, st.pos + cnt[2])
            st1 == [ st EXCEPT !.pos = st.pos + cnt[2] ]
        IN  IF \E i \in 1..Len(buf) : buf[i] \notin 0..1 THEN bogus(st1)
            ELSE [ st1 EXCEPT !.tz.is_std =
                     [ i \in 1..Len(buf) |->
                         IF buf[i] = 0 THEN "Wall" ELSE "Standard" ] ]

\* lines 193-201
ReadIsUt(st, s, le) ==
    IF st.err # "" THEN st
    ELSE
      LET cnt == BuToU32(st.h.isutcnt, le) IN
      IF ~CanRead(s, st.pos, cnt, 1) THEN ShortRead(st, s)
      ELSE
        LET buf == SubSeq(s, st.pos + 1, st.pos + cnt[2])
            st1 == [ st EXCEPT !.pos = st.pos + cnt[2] ]
        IN  IF \E i \in 1..Len(buf) : buf[i] \notin 0..1 THEN bogus(st1)
            ELSE [ st1 EXCEPT !.tz.is_ut =
                     [ i \in 1..Len(buf) |->
                         IF buf[i] = 0 THEN "Local" ELSE "UT" ] ]

Max(a, b) == IF a >= b THEN a ELSE b

\* a missing std/wall entry taken for Standard
IsStdOrMutant(tz, i) == IF i < Len(tz.is_std) THEN tz.is_std[i + 1] ELSE "Standard"

\* result.is_std.get(i).unwrap_or(&IsStd::Wall); i counts from 0
IsStdOr(tz, i) == IF i < Len(tz.is_std) THEN tz.is_std[i + 1] ELSE "Wall"

\* result.is_ut.get(i).unwrap_or(&IsUT::Local); i counts from 0
IsUtOr(tz, i) == IF i < Len(tz.is_ut) THEN tz.is_ut[i + 1] ELSE "Local"

\* parse_internal without the loop of lines 203-209
CheckWallUtMutant(st) == st

\* lines 203-209
CheckWallUt(st) ==
    IF st.err # "" THEN st
    ELSE IF \E i \in 0..(Max(Len(st.tz.is_std), Len(st.tz.is_ut)) - 1) :
              IsStdOr(st.tz, i) = "Wall" /\ IsUtOr(st.tz, i) = "UT"
         THEN bogus(st)
         ELSE st

\* lines 211-215
CheckTransitionTypes(st) ==
    IF st.err # "" THEN st
    ELSE IF \E i \in 1..Len(st.tz.transition_types) :
              st.tz.transition_types[i] > Len(st.tz.local_time_types)
         THEN bogus(st)
         ELSE st

\* TimeZoneInfo::parse_internal
parse_internal(s, p, v1, le) ==
    CheckTransitionTypes(
      CheckWallUt(
        ReadIsUt(
          ReadIsStd(
            ReadLeapSeconds(
              ReadDesignations(
                ReadLocalTimeTypes(
                  ReadTransitionTypes(
                    ReadTransitionTimes(ReadHeader(s, p, le), s, v1, le),
                    s, le),
                  s, le),
                s, le),
              s, v1, le),
            s, le),
          s, le)))

----------------------------------------------------------------------------
(* parse                                                                   *)

\* the second parse_internal call did not run
NotRun == [ err |-> "NotRun", tz |-> DefaultTz, pos |-> 0, h |-> NoHeader ]

\* a parse_internal call as the caller sees it: its header by its fields
Seen(st, le) == [ st EXCEPT !.h = Fields(st.h, le) ]

\* io::Result<TimeZoneInfo>: an error carries no database; h is the header of
\* the parse_internal call that produced the database
ResultOf(st) ==
    IF st.err = "" THEN [ err |-> "", tz |-> st.tz, h |-> st.h ]
                   ELSE [ err |-> st.err, tz |-> DefaultTz, h |-> NoHeader ]

\* parse without the early return of line 112
IsV1Mutant(tz) == FALSE

\* line 112: the early return for a version-1 file
IsV1(tz) == tz.version = 1

\* the second call's error propagated (`?` in place of .or)
OrV1Mutant(r2, r1) == ResultOf(r2)

\* line 116: .or(Ok(v1_result))
OrV1(r2, r1) == IF r2.err = "" THEN ResultOf(r2) ELSE ResultOf(r1)

\* TimeZoneInfo::parse on a reader delivering the bytes s, on a target of
\* byte order le: what it returns, with the outcome of each parse_internal
\* call and the reader's final position
parse(s, le) ==
    LET r1 == Seen(parse_internal(s, 0, TRUE, le), le) IN
    IF r1.err # "" THEN
        [ first |-> r1, second |-> NotRun, ret |-> ResultOf(r1), pos |-> r1.pos ]
    ELSE IF IsV1(r1.tz) THEN
        [ first |-> r1, second |-> NotRun, ret |-> ResultOf(r1), pos |-> r1.pos ]
    ELSE
        LET r2 == Seen(parse_internal(s, r1.pos, FALSE, le), le) IN
        [ first |-> r1, second |-> r2, ret |-> OrV1(r2, r1), pos |-> r2.pos ]

----------------------------------------------------------------------------
(* local_time_type, the iterator, to_ut                                    *)

\* how far the `while let` of local_time_type moves dend: to the first 0 at
\* or after it, or to the end of the blob (dend counts from 0)
RECURSIVE ScanDesig(_, _)
ScanDesig(blob, dend) ==
    IF dend >= Len(blob) THEN dend
    ELSE IF blob[dend + 1] = 0 THEN dend
    ELSE ScanDesig(blob, dend + 1)

IsCont(b) == b \in 128..191

\* std::str::from_utf8(..).is_ok()
RECURSIVE Utf8Valid(_)
Utf8Valid(b) ==
    IF b = <<>> THEN TRUE
    ELSE
      LET c == b[1]
          n == Len(b)
          Tail2 == SubSeq(b, 3, n)
          Tail3 == SubSeq(b, 4, n)
          Tail4 == SubSeq(b, 5, n)
      IN  CASE c <= 127 -> Utf8Valid(Tail(b))
            [] c \in 194..223 -> n >= 2 /\ IsCont(b[2]) /\ Utf8Valid(Tail2)
            [] c = 224 -> n >= 3 /\ b[2] \in 160..191 /\ IsCont(b[3]) /\ Utf8Valid(Tail3)
            [] c \in (225..236) \cup (238..239) ->
                 n >= 3 /\ IsCont(b[2]) /\ IsCont(b[3]) /\ Utf8Valid(Tail3)
            [] c = 237 -> n >= 3 /\ b[2] \in 128..159 /\ IsCont(b[3]) /\ Utf8Valid(Tail3)
            [] c = 240 ->
                 n >= 4 /\ b[2] \in 144..191 /\ IsCont(b[3]) /\ IsCont(b[4]) /\ Utf8Valid(Tail4)
            [] c \in 241..243 ->
                 n >= 4 /\ IsCont(b[2]) /\ IsCont(b[3]) /\ IsCont(b[4]) /\ Utf8Valid(Tail4)
            [] c = 244 ->
                 n >= 4 /\ b[2] \in 128..143 /\ IsCont(b[3]) /\ IsCont(b[4]) /\ Utf8Valid(Tail4)
            [] OTHER -> FALSE

NoLocal == [ desig |-> <<>>, ut_offset_secs |-> <<0, 0>>, is_dst |-> FALSE ]

\* TimeZoneInfo::local_time_type(idx), idx counting from 0: panic is "" when
\* it returns, and names the panic otherwise
local_time_type(tz, i) ==
    IF i >= Len(tz.local_time_types) THEN
        [ panic |-> "local_time_types index out of bounds", val |-> NoLocal ]
    ELSE
      LET typ    == tz.local_time_types[i + 1]
          blob   == tz.time_zone_designations
          dstart == typ.desig_idx
          dend   == ScanDesig(blob, dstart)
      IN  IF dend > Len(blob) THEN
              [ panic |-> "designation slice out of range", val |-> NoLocal ]
          ELSE IF ~Utf8Valid(SubSeq(blob, dstart + 1, dend)) THEN
              [ panic |-> "designation is not UTF-8", val |-> NoLocal ]
          ELSE
              [ panic |-> "",
                val   |-> [ desig          |-> SubSeq(blob, dstart + 1, dend),
                            ut_offset_secs |-> typ.ut_off_secs,
                            is_dst         |-> typ.is_dst ] ]

NoTime == [ tag |-> "None", t |-> Zero64 ]

\* the match of TransitionIterator::next on (is_std, is_ut)
TimeOf(std, utl, at_ts) ==
    CASE std = "Standard" /\ utl = "UT"    -> [ tag |-> "UT", t |-> at_ts ]
      [] std = "Standard" /\ utl = "Local" -> [ tag |-> "LocalStandard", t |-> at_ts ]
      [] std = "Wall" /\ utl = "Local"     -> [ tag |-> "LocalWall", t |-> at_ts ]
      [] OTHER                              -> NoTime

\* TransitionIterator::next with the iterator at i: what it returns (kind
\* "None" or "Some" with the item) or that it panics (kind "Panic"), and the
\* (is_std, is_ut) pair its match evaluated, if it got that far
next(tz, i) ==
    IF i >= Len(tz.transition_times) THEN
        [ kind |-> "None", msg |-> "", at_time |-> NoTime, local |-> NoLocal,
          pair |-> <<>> ]
    ELSE
      LET at_ts   == tz.transition_times[i + 1]
          typ_idx == tz.transition_types[i + 1]
          loc     == local_time_type(tz, typ_idx)
      IN  IF loc.panic # "" THEN
              [ kind |-> "Panic", msg |-> loc.panic, at_time |-> NoTime,
                local |-> NoLocal, pair |-> <<>> ]
          ELSE IF typ_idx >= Len(tz.is_std) THEN
              [ kind |-> "Panic", msg |-> "is_std index out of bounds",
                at_time |-> NoTime, local |-> NoLocal, pair |-> <<>> ]
          ELSE IF typ_idx >= Len(tz.is_ut) THEN
              [ kind |-> "Panic", msg |-> "is_ut index out of bounds",
                at_time |-> NoTime, local |-> NoLocal, pair |-> <<>> ]
          ELSE
            LET std == tz.is_std[typ_idx + 1]
                utl == tz.is_ut[typ_idx + 1]
            IN  IF std = "Wall" /\ utl = "UT" THEN
                    [ kind |-> "Panic", msg |-> "transition time can't be wall+universal",
                      at_time |-> NoTime, local |-> NoLocal, pair |-> <<std, utl>> ]
                ELSE
                    [ kind |-> "Some", msg |-> "", at_time |-> TimeOf(std, utl, at_ts),
                      local |-> loc.val, pair |-> <<std, utl>> ]

\* one `+` of to_ut: panics on overflow when the build checks overflow, wraps
\* otherwise
Add(o, b, checks) ==
    IF o.panic THEN o
    ELSE IF checks /\ AddOverflows64(o.val, b) THEN [ panic |-> TRUE, val |-> Zero64 ]
    ELSE [ panic |-> FALSE, val |-> WrappingAdd64(o.val, b) ]

\* Time::to_ut
to_ut(time, loc, checks) ==
    LET t   == [ panic |-> FALSE, val |-> time.t ]
        off == I64FromI32(loc.ut_offset_secs)
    IN  CASE time.tag = "UT"            -> t
          [] time.tag = "LocalStandard" -> Add(t, off, checks)
          [] time.tag = "LocalWall"     ->
               Add(Add(t, off, checks), IF loc.is_dst THEN Hour64 ELSE Zero64, checks)

NoUt == [ checks |-> FALSE, panic |-> FALSE, val |-> <<>> ]

----------------------------------------------------------------------------
(* The inputs: byte streams laid out as RFC 8536 files, well-formed and    *)
(* not, from which Init draws the reader's content.                        *)

MaxTimeCnt == 2

MaxTypeCnt == 2

MaxLeapCnt == 1

\* a small count as the 4 big-endian bytes of a header field
U32Bytes(n) == << 0, 0, n \div 256, n % 256 >>

Zeros(n) == [ i \in 1..n |-> 0 ]

RECURSIVE Flatten(_)
Flatten(ss) == IF ss = <<>> THEN <<>> ELSE Head(ss) \o Flatten(Tail(ss))

\* all sequences over S of length at most n
SeqsUpTo(S, n) == UNION { [ 1..k -> S ] : k \in 0..n }

\* the i-th transition time of a block: 1000, then -1 (32-bit) or i64::MAX
\* (64-bit), then small values
TimeBytes(v1, i) ==
    IF v1 THEN (IF i = 1 THEN << 0, 0, 3, 232 >>
                ELSE IF i = 2 THEN << 255, 255, 255, 255 >>
                ELSE << 0, 0, 0, i >>)
          ELSE (IF i = 1 THEN << 0, 0, 0, 0, 0, 0, 3, 232 >>
                ELSE IF i = 2 THEN << 127, 255, 255, 255, 255, 255, 255, 255 >>
                ELSE << 0, 0, 0, 0, 0, 0, 0, i >>)

\* the UT offset of the i-th local time type: 3600, then -3600, then small
OffsetBytes(i) ==
    IF i = 1 THEN << 0, 0, 14, 16 >>
    ELSE IF i = 2 THEN << 255, 255, 241, 240 >>
    ELSE << 0, 0, 0, i >>

\* One header and body. types: the transition type bytes (timecnt of them);
\* ltts: per local time type its <<is_dst byte, designation index>>;
\* std, utl: the indicator bytes, whose number the header declares.
Block(v1, magic, ver, types, ltts, blob, leapcnt, std, utl) ==
    magic \o << ver >> \o Zeros(15)
      \o U32Bytes(Len(utl)) \o U32Bytes(Len(std)) \o U32Bytes(leapcnt)
      \o U32Bytes(Len(types)) \o U32Bytes(Len(ltts)) \o U32Bytes(Len(blob))
      \o Flatten([ i \in 1..Len(types) |-> TimeBytes(v1, i) ])
      \o types
      \o Flatten([ i \in 1..Len(ltts) |-> OffsetBytes(i) \o ltts[i] ])
      \o blob
      \o Flatten([ i \in 1..leapcnt |-> TimeBytes(v1, i) \o << 0, 0, 0, i >> ])
      \o std
      \o utl

BadMagic == << 84, 90, 105, 70 >>

\* version bytes: 0, '2', '3' and the unsupported '1'
VersionBytes == { 0, 50, 51, 49 }

TypeIdxBytes == { 0, 1, 2 }

FlagBytes == { 0, 1, 2 }

\* "U\0", "UT" without a terminator, an invalid UTF-8 byte, a two-byte
\* character, and the empty blob
Blobs == { << 85, 0 >>, << 85, 84 >>, << 255, 0 >>, << 195, 169, 0 >>, <<>> }

\* indicator tables for n local time types: none, n of them, or a count that
\* is neither 0 nor n
Indicators(n) == { <<>> } \cup [ 1..n -> FlagBytes ] \cup { Zeros(n + 1) }

\* local time type tables of n records with valid flags and designation 0
PlainTypes(n) == [ i \in 1..n |-> << i % 2, 0 >> ]

\* local time type tables of n records: each is_dst byte pattern with one
\* designation index for all records
TypeTables(n) ==
    { [ i \in 1..n |-> << IF i = 1 THEN f ELSE (i % 2), d >> ] :
        f \in FlagBytes, d \in 0..3 }

Ones(n) == [ i \in 1..n |-> 1 ]

\* indicator tables that pass the checks of parse_internal
IndicatorPairs(n) ==
    { << <<>>, <<>> >>, << Ones(n), Ones(n) >>, << Ones(n), Zeros(n) >>,
      << Zeros(n), Zeros(n) >>, << Ones(n), <<>> >> }

\* the stream is a version-1 file whose transition types and indicator
\* tables vary
ValidationInput ==
    \E types \in SeqsUpTo(TypeIdxBytes, MaxTimeCnt), n \in 0..MaxTypeCnt :
      \E std \in Indicators(n), utl \in Indicators(n) :
        stream = Block(TRUE, Magic, 0, types, PlainTypes(n), << 85, 0 >>, 0, std, utl)

\* the stream is a version-1 file whose local time types and designations vary
IterationInput ==
    \E types \in SeqsUpTo(TypeIdxBytes, MaxTimeCnt), n \in 1..MaxTypeCnt, blob \in Blobs :
      \E ltts \in TypeTables(n), ind \in IndicatorPairs(n) :
        stream = Block(TRUE, Magic, 0, types, ltts, blob, 0, ind[1], ind[2])

\* the first block of a two-block file
FirstBlocks ==
    { Block(TRUE, Magic, ver, types, PlainTypes(1), << 85, 0 >>, 1, ind, ind) :
        ver \in VersionBytes, types \in { <<>>, << 0 >> }, ind \in { <<>>, << 1 >> } }

\* a well-formed second block
GoodModern ==
    Block(FALSE, Magic, 50, << 0, 0 >>, PlainTypes(1), << 85, 0 >>, 1, << 1 >>, << 0 >>)

\* second blocks, well-formed and not
ModernBlocks ==
    { Block(FALSE, Magic, 50, types, PlainTypes(1), << 85, 0 >>, leapcnt, std, utl) :
        types \in SeqsUpTo({ 0, 2 }, MaxTimeCnt), leapcnt \in 0..MaxLeapCnt,
        std \in Indicators(1), utl \in Indicators(1) }
      \cup
    { Block(FALSE, magic, ver, << 0 >>, ltts, << 85, 0 >>, 0, << 1 >>, << 1 >>) :
        magic \in { Magic, BadMagic }, ver \in VersionBytes,
        ltts \in { << << 0, 0 >> >>, << << 2, 0 >> >> } }

\* what may follow the first block: nothing, a second block, a second block
\* cut short, a second block and a footer
Tails ==
    ModernBlocks
      \cup { SubSeq(GoodModern, 1, k) : k \in 0..Len(GoodModern) }
      \cup { GoodModern \o << 10, 85, 10 >> }

\* the stream is a first block and what follows it
TwoPassInput == \E b \in FirstBlocks, t \in Tails : stream = b \o t

\* a well-formed version-1 block, with leap seconds and both indicator tables
GoodV1(ver) ==
    Block(TRUE, Magic, ver, << 0, 1 >>, PlainTypes(2), << 85, 0 >>, 1, << 1, 1 >>, << 0, 1 >>)

\* the stream is a first block that is cut short, declares 2^24 transition
\* times or more, or carries a wrong magic
BrokenInput ==
    \/ \E ver \in { 0, 50 }, k \in 0..Len(GoodV1(0)) : stream = SubSeq(GoodV1(ver), 1, k)
    \/ \E ver \in { 0, 50 }, b \in { 1, 255 } : stream = [ GoodV1(ver) EXCEPT ![33] = b ]
    \/ \E ver \in VersionBytes :
         stream = Block(TRUE, BadMagic, ver, <<>>, PlainTypes(1), << 85, 0 >>, 0, <<>>, <<>>)

----------------------------------------------------------------------------
(* The program: a caller parses a stream, walks the transitions and        *)
(* converts each to UT, as examples/tzif.rs does.                          *)

NoResult == [ err |-> "NotRun", tz |-> DefaultTz, h |-> NoHeader ]

Init ==
    /\ (IterationInput \/ ValidationInput \/ TwoPassInput \/ BrokenInput)
    /\ pc = "start"
    /\ hbuf = <<>>
    /\ hdr = NoHeader
    /\ first = NotRun
    /\ second = NotRun
    /\ ret = NoResult
    /\ pos = 0
    /\ idx = 0
    /\ items = <<>>
    /\ reached = {}
    /\ at_time = NoTime
    /\ local = NoLocal
    /\ fault = ""
    /\ ut = NoUt

\* TimeZoneInfo::parse(reader), on either byte order
Parse ==
    /\ pc = "start"
    /\ \E le \in BOOLEAN : \E r \in { parse(stream, le) } :
           /\ first' = r.first
           /\ second' = r.second
           /\ ret' = r.ret
           /\ pos' = r.pos
    /\ pc' = "parsed"
    /\ UNCHANGED << stream, hbuf, hdr, idx, items, reached,
                    at_time, local, fault, ut >>

\* TimeZoneInfo::iter_transitions on the database parse returned: a fresh
\* traversal, whatever became of an earlier one
IterTransitions ==
    /\ pc \in { "parsed", "iterating", "ended" }
    /\ ret.err = ""
    /\ idx' = 0
    /\ items' = <<>>
    /\ at_time' = NoTime
    /\ local' = NoLocal
    /\ ut' = NoUt
    /\ pc' = "iterating"
    /\ UNCHANGED << stream, hbuf, hdr, first, second, ret,
                    pos, reached, fault >>

\* TransitionIterator::next
IterNext ==
    /\ pc = "iterating"
    /\ \E r \in { next(ret.tz, idx) } :
         /\ pc' = CASE r.kind = "None"  -> "ended"
                    [] r.kind = "Panic" -> "panicked"
                    [] OTHER            -> "iterating"
         /\ idx' = IF r.kind = "Some" THEN idx + 1 ELSE idx
         /\ items' = IF r.kind = "Some"
                       THEN Append(items, [ at_time |-> r.at_time, local |-> r.local ])
                       ELSE items
         /\ reached' = IF r.pair = <<>> THEN reached ELSE reached \cup { r.pair }
         /\ at_time' = r.at_time
         /\ local' = r.local
         /\ fault' = r.msg
         /\ ut' = NoUt
    /\ UNCHANGED << stream, hbuf, hdr, first, second, ret, pos >>

\* Time::to_ut on the item in hand, in a build with or without overflow checks
ToUt ==
    /\ at_time # NoTime
    /\ ut = NoUt
    /\ \E checks \in BOOLEAN : \E r \in { to_ut(at_time, local, checks) } :
           ut' = [ checks |-> checks, panic |-> r.panic, val |-> r.val ]
    /\ UNCHANGED << stream, pc, hbuf, hdr, first, second, ret,
                    pos, idx, items, reached, at_time, local, fault >>

Next == Parse \/ IterTransitions \/ IterNext \/ ToUt

Spec == Init /\ [][Next]_vars

----------------------------------------------------------------------------
(* The header test (tests::test_header_v1): a 44-byte array goes through   *)
(* Header::from_array and every field is read back.                        *)

\* the 4 bytes of a count field in the arrays the test is run on
CountBytes ==
    { << 0, 0, 0, 0 >>, << 0, 0, 0, 1 >>, << 0, 0, 0, 4 >>, << 0, 0, 0, 27 >>,
      << 222, 173, 190, 239 >> }

ReservedBytes == { Zeros(15), [ i \in 1..15 |-> (i * 17) % 256 ] }

HeaderInit ==
    /\ \E magic \in { Magic, BadMagic }, ver \in { 0, 50 }, res \in ReservedBytes :
         \E c \in [ 1..6 -> CountBytes ] :
           hbuf = magic \o << ver >> \o res \o Flatten(c)
    /\ stream = <<>>
    /\ pc = "header"
    /\ hdr = NoHeader
    /\ first = NotRun
    /\ second = NotRun
    /\ ret = NoResult
    /\ pos = 0
    /\ idx = 0
    /\ items = <<>>
    /\ reached = {}
    /\ at_time = NoTime
    /\ local = NoLocal
    /\ fault = ""
    /\ ut = NoUt

HeaderTest ==
    /\ pc = "header"
    /\ \E le \in BOOLEAN : hdr' = Fields(HeaderFromArray(hbuf, le), le)
    /\ pc' = "decoded"
    /\ UNCHANGED << stream, hbuf, first, second, ret, pos, idx, items, reached,
                    at_time, local, fault, ut >>

SpecHeader == HeaderInit /\ [][HeaderTest]_vars

----------------------------------------------------------------------------
(* to_ut on its own, over times and offsets up to the ends of their ranges *)

\* i64 values: 0, 1000, -1, 2^32 - 1, i64::MAX, i64::MAX - 3599,
\* i64::MAX - 3600, i64::MIN, i64::MIN + 1, i64::MIN + 3600
TimeValues ==
    { << 0, 0, 0, 0 >>, << 0, 0, 0, 1000 >>, << 65535, 65535, 65535, 65535 >>,
      << 0, 0, 65535, 65535 >>,
      << 32767, 65535, 65535, 65535 >>, << 32767, 65535, 65535, 61936 >>,
      << 32767, 65535, 65535, 61935 >>,
      << 32768, 0, 0, 0 >>, << 32768, 0, 0, 1 >>, << 32768, 0, 0, 3600 >> }

\* i32 values: 0, 1, -1, 3600, -3600, i32::MAX, i32::MIN
OffsetValues ==
    { << 0, 0 >>, << 0, 1 >>, << 65535, 65535 >>, << 0, 3600 >>, << 65535, 61936 >>,
      << 32767, 65535 >>, << 32768, 0 >> }

ToUtInit ==
    /\ \E tag \in { "UT", "LocalStandard", "LocalWall" }, t \in TimeValues :
         at_time = [ tag |-> tag, t |-> t ]
    /\ \E off \in OffsetValues, dst \in BOOLEAN :
         local = [ desig |-> << 85 >>, ut_offset_secs |-> off, is_dst |-> dst ]
    /\ stream = <<>>
    /\ pc = "convert"
    /\ hbuf = <<>>
    /\ hdr = NoHeader
    /\ first = NotRun
    /\ second = NotRun
    /\ ret = NoResult
    /\ pos = 0
    /\ idx = 0
    /\ items = <<>>
    /\ reached = {}
    /\ fault = ""
    /\ ut = NoUt

SpecToUt == ToUtInit /\ [][ToUt]_vars

----------------------------------------------------------------------------
(* What the claims speak of, stated on the bytes of the stream by the      *)
(* layout of RFC 8536 and on exact integers, apart from the decoder.       *)

\* the count in the 4-byte big-endian field after offset off, when it is
\* below 2^16; -1 when it is larger than any stream here could satisfy
FieldAt(s, off) ==
    IF s[off + 1] = 0 /\ s[off + 2] = 0 THEN s[off + 3] * 256 + s[off + 4] ELSE -1

\* where the tables of a block with 32-bit times lie, the block starting at
\* the head of s (Len(s) >= 44)
V1Layout(s) ==
    LET isutcnt  == FieldAt(s, 20)
        isstdcnt == FieldAt(s, 24)
        leapcnt  == FieldAt(s, 28)
        timecnt  == FieldAt(s, 32)
        typecnt  == FieldAt(s, 36)
        charcnt  == FieldAt(s, 40)
        typesAt  == 44 + 4 * timecnt
        stdAt    == typesAt + timecnt + 6 * typecnt + charcnt + 8 * leapcnt
    IN  [ isutcnt |-> isutcnt, isstdcnt |-> isstdcnt, leapcnt |-> leapcnt,
          timecnt |-> timecnt, typecnt |-> typecnt, charcnt |-> charcnt,
          small   |-> \A c \in { isutcnt, isstdcnt, leapcnt, timecnt, typecnt, charcnt } :
                        c >= 0,
          typesAt |-> typesAt, stdAt |-> stdAt, utAt |-> stdAt + isstdcnt,
          end     |-> stdAt + isstdcnt + isutcnt ]

\* the stream begins with a complete header and body with 32-bit times
HasV1Block(s) ==
    /\ Len(s) >= 44
    /\ V1Layout(s).small
    /\ V1Layout(s).end <= Len(s)

\* the bytes of blob from position i (counting from 0) up to the next 0, or
\* to the end of the blob
DesignationAt(blob, i) ==
    LET nuls == { k \in (i + 1)..Len(blob) : blob[k] = 0 }
        stop == IF nuls = {} THEN Len(blob)
                ELSE (CHOOSE k \in nuls : \A j \in nuls : k <= j) - 1
    IN  SubSeq(blob, i + 1, stop)

\* exact integers of up to 65 bits or so: 5 limbs, two's complement
Ext64(x) == << IF x[1] >= 32768 THEN 65535 ELSE 0 >> \o x

Ext32(x) ==
    IF x[1] >= 32768 THEN << 65535, 65535, 65535, x[1], x[2] >>
                     ELSE << 0, 0, 0, x[1], x[2] >>

Plus(a, b) ==
    LET s5 == a[5] + b[5]
        s4 == a[4] + b[4] + s5 \div Base
        s3 == a[3] + b[3] + s4 \div Base
        s2 == a[2] + b[2] + s3 \div Base
        s1 == a[1] + b[1] + s2 \div Base
    IN  << s1 % Base, s2 % Base, s3 % Base, s4 % Base, s5 % Base >>

\* the integer lies in the range of i64
FitsI64(x) == x[1] = (IF x[2] >= 32768 THEN 65535 ELSE 0)

\* t + ut_offset_secs, as an integer
WithOffset(time, loc) == Plus(Ext64(time.t), Ext32(loc.ut_offset_secs))

\* the integer the claim names for to_ut
ExactUt(time, loc) ==
    CASE time.tag = "UT"            -> Ext64(time.t)
      [] time.tag = "LocalStandard" -> WithOffset(time, loc)
      [] time.tag = "LocalWall"     ->
           Plus(WithOffset(time, loc),
                IF loc.is_dst THEN << 0, 0, 0, 0, 3600 >> ELSE << 0, 0, 0, 0, 0 >>)

\* every sum to_ut forms on the way lies in the range of i64
SumsFit(time, loc) ==
    \/ time.tag = "UT"
    \/ /\ FitsI64(WithOffset(time, loc))
       /\ FitsI64(ExactUt(time, loc))

----------------------------------------------------------------------------
(* The claims                                                              *)

\* C1 (as claimed): whenever the first block is complete and one of its
\* transition type bytes is >= typecnt, parse fails with InvalidData; and
\* every transition type of a database returned from the first pass is a
\* valid index into local_time_types.
C1_TypeIndexOutOfRangeRejected ==
    (pc # "start" /\ HasV1Block(stream)) =>
      LET L == V1Layout(stream) IN
        /\ (\E i \in 1..L.timecnt : stream[L.typesAt + i] >= L.typecnt)
             => ret.err = "InvalidData"
        /\ (ret.err = "" /\ second.err # "")
             => \A i \in 1..Len(ret.tz.transition_types) :
                  ret.tz.transition_types[i] < Len(ret.tz.local_time_types)

\* C2 (as claimed): a traversal of a database parse returned never faults;
\* it yields the transitions in stored order, each with its raw time and the
\* local time type its transition type selects, and ends after the last.
C2_TraversalYieldsEveryTransition ==
    /\ pc # "panicked"
    /\ pc \in { "iterating", "ended" } =>
         /\ Len(items) = idx
         /\ idx <= Len(ret.tz.transition_times)
         /\ \A i \in 1..Len(items) :
              LET typ == ret.tz.local_time_types[ret.tz.transition_types[i] + 1] IN
                /\ items[i].at_time.t = ret.tz.transition_times[i]
                /\ items[i].local.ut_offset_secs = typ.ut_off_secs
                /\ items[i].local.is_dst = typ.is_dst
    /\ pc = "ended" => Len(items) = Len(ret.tz.transition_times)

\* C3: when the first pass succeeds on a version 2 or 3 header and the
\* second pass fails, parse succeeds and returns the first pass's database
\* and nothing of the second.
C3_FallsBackToFirstPass ==
    ( /\ pc # "start"
      /\ first.err = ""
      /\ stream[5] \in { 50, 51 }
      /\ second.err \in { "UnexpectedEof", "InvalidData" } )
      => /\ ret.err = ""
         /\ ret.tz = first.tz
         /\ ret.h = first.h

\* C3's case: a version-2 file whose second block is cut short inside its
\* body after a first block with a transition
C3_Witness ==
    /\ pc = "parsed"
    /\ stream[5] = 50
    /\ first.err = ""
    /\ second.err = "UnexpectedEof"
    /\ Len(stream) > first.pos + 44
    /\ ret.err = ""
    /\ Len(ret.tz.transition_times) = 1

\* C4: on a version byte of 0 parse makes no second pass and reads nothing
\* past the first block; what it returns is what it returns on the stream
\* cut off where the first pass stopped, so bytes appended there change
\* nothing.
C4_Version1SinglePass ==
    (pc = "parsed" /\ Len(stream) >= 5 /\ stream[5] = 0) =>
      /\ second = NotRun
      /\ pos = first.pos
      /\ HasV1Block(stream) => pos <= V1Layout(stream).end
      /\ \A le \in BOOLEAN : parse(SubSeq(stream, 1, pos), le).ret = ret

\* C4's case: a complete version-1 block, parsed, with bytes after it
C4_Witness ==
    /\ pc = "parsed"
    /\ HasV1Block(stream)
    /\ stream[5] = 0
    /\ Len(stream) > V1Layout(stream).end
    /\ pos = V1Layout(stream).end
    /\ ret.err = ""
    /\ Len(ret.tz.transition_times) = 1

\* C5: whenever the first block is complete and some index has std/wall
\* indicator Wall (byte 0, or no table) and UT/local indicator UT (byte 1),
\* parse fails with InvalidData.
C5_WallUtRejected ==
    (pc # "start" /\ HasV1Block(stream)) =>
      LET L == V1Layout(stream) IN
        (\E i \in 1..Max(L.isstdcnt, L.isutcnt) :
            /\ (i <= L.isstdcnt => stream[L.stdAt + i] = 0)
            /\ i <= L.isutcnt
            /\ stream[L.utAt + i] = 1)
          => ret.err = "InvalidData"

\* C5's case: a block that is well-formed but for a UT indicator with no
\* std/wall table, rejected
C5_Witness ==
    /\ pc = "parsed"
    /\ HasV1Block(stream)
    /\ SubSeq(stream, 1, 5) = Magic \o << 0 >>
    /\ LET L == V1Layout(stream) IN
         /\ L.isstdcnt = 0
         /\ L.isutcnt = L.typecnt
         /\ L.typecnt = 2
         /\ stream[L.utAt + 1] = 0
         /\ stream[L.utAt + 2] = 1
         /\ \A i \in 1..L.timecnt : stream[L.typesAt + i] < L.typecnt
    /\ ret.err = "InvalidData"

\* C6 (as claimed): to_ut never faults and returns the exact integer t,
\* t + ut_offset_secs or t + ut_offset_secs + 3600, whatever t is.
C6_ToUtExact ==
    ut # NoUt => /\ ~ut.panic
                 /\ Ext64(ut.val) = ExactUt(at_time, local)

\* C6 (amended): to_ut returns the exact integer whenever every sum it forms
\* lies in the range of i64; when one does not, it panics in a build with
\* overflow checks and returns the sum modulo 2^64 in a build without.
C6_ToUtExactWhenSumsFit ==
    ut # NoUt =>
      /\ SumsFit(at_time, local) =>
           /\ ~ut.panic
           /\ Ext64(ut.val) = ExactUt(at_time, local)
      /\ (~SumsFit(at_time, local) /\ ut.checks) => ut.panic
      /\ ~ut.checks =>
           /\ ~ut.panic
           /\ ut.val = Tail(ExactUt(at_time, local))

\* C6's case: a wall-clock time an hour before i64::MAX, in DST, converted
\* to i64::MAX
C6_Witness ==
    /\ at_time = [ tag |-> "LocalWall", t |-> << 32767, 65535, 65535, 61935 >> ]
    /\ local.ut_offset_secs = << 0, 0 >>
    /\ local.is_dst
    /\ ut.checks
    /\ ~ut.panic
    /\ ut.val = << 32767, 65535, 65535, 65535 >>

\* C7 (as claimed): for every local time type of a database parse returned,
\* the designation lookup does not fault and gives the bytes of the blob
\* from the stored index up to the next 0 or the end of the blob.
C7_DesignationLookup ==
    (pc # "start" /\ ret.err = "") =>
      \A i \in 1..Len(ret.tz.local_time_types) :
        /\ local_time_type(ret.tz, i - 1).panic = ""
        /\ local_time_type(ret.tz, i - 1).val.desig =
             DesignationAt(ret.tz.time_zone_designations,
                           ret.tz.local_time_types[i].desig_idx)

\* C8: in a database parse returned, the lengths of the sequences are the
\* counts of the header of the block it was decoded from, and is_std and
\* is_ut are empty or as long as local_time_types.
C8_LengthsAreTheCounts ==
    (pc # "start" /\ ret.err = "") =>
      LET at == IF second.err = "" THEN first.pos ELSE 0
          tz == ret.tz
      IN  /\ Len(tz.transition_times) = FieldAt(stream, at + 32)
          /\ Len(tz.transition_types) = FieldAt(stream, at + 32)
          /\ Len(tz.local_time_types) = FieldAt(stream, at + 36)
          /\ Len(tz.time_zone_designations) = FieldAt(stream, at + 40)
          /\ Len(tz.leap_second_records) = FieldAt(stream, at + 28)
          /\ Len(tz.is_std) = FieldAt(stream, at + 24)
          /\ Len(tz.is_ut) = FieldAt(stream, at + 20)
          /\ Len(tz.is_std) \in { 0, Len(tz.local_time_types) }
          /\ Len(tz.is_ut) \in { 0, Len(tz.local_time_types) }
          /\ ret.h.timecnt = << 0, Len(tz.transition_times) >>
          /\ ret.h.typecnt = << 0, Len(tz.local_time_types) >>

\* C8's case: a database with transitions, leap seconds and both tables
C8_Witness ==
    /\ pc = "parsed"
    /\ ret.err = ""
    /\ Len(ret.tz.transition_times) = 2
    /\ Len(ret.tz.leap_second_records) = 1
    /\ Len(ret.tz.is_std) = 1
    /\ Len(ret.tz.is_ut) = 1
    /\ Len(ret.tz.time_zone_designations) = 2

\* the unsigned 32-bit big-endian value of the 4 bytes after offset off,
\* most significant byte first, in limbs
BigEndian32(b, off) ==
    << b[off + 1] * 256 + b[off + 2], b[off + 3] * 256 + b[off + 4] >>

\* C9: the header's magic is bytes 0..3, its version byte 4, and its six
\* counts the big-endian values of bytes 20..43, four bytes each, on either
\* byte order; the reserved bytes play no part.
C9_HeaderFields ==
    pc = "decoded" =>
      /\ hdr.magic = SubSeq(hbuf, 1, 4)
      /\ hdr.ver = hbuf[5]
      /\ hdr.isutcnt = BigEndian32(hbuf, 20)
      /\ hdr.isstdcnt = BigEndian32(hbuf, 24)
      /\ hdr.leapcnt = BigEndian32(hbuf, 28)
      /\ hdr.timecnt = BigEndian32(hbuf, 32)
      /\ hdr.typecnt = BigEndian32(hbuf, 36)
      /\ hdr.charcnt = BigEndian32(hbuf, 40)

\* C9's case: a header with reserved bytes set, isutcnt 0xDEADBEEF and the
\* other counts of the unit test
C9_Witness ==
    /\ pc = "decoded"
    /\ hbuf[6] # 0
    /\ SubSeq(hbuf, 21, 24) = << 222, 173, 190, 239 >>
    /\ hdr.isutcnt = << 57005, 48879 >>
    /\ hdr.isstdcnt = << 0, 1 >>
    /\ hdr.leapcnt = << 0, 27 >>
    /\ hdr.timecnt = << 0, 0 >>
    /\ hdr.typecnt = << 0, 1 >>
    /\ hdr.charcnt = << 0, 4 >>

\* C10: no step of a traversal reaches the (Wall, UT) arm: every pair the
\* iterator's match evaluates is another one.
C10_WallUtNeverReached ==
    /\ << "Wall", "UT" >> \notin reached
    /\ fault # "transition time can't be wall+universal"

\* C10's case: a traversal that ended after its match evaluated pairs for
\* two transitions
C10_Witness ==
    /\ pc = "ended"
    /\ Len(items) = 2
    /\ reached # {}

====
